---- MODULE Spec2Model ----
(***************************************************************************)
(* Detection aggregation, clustering and proximity alerting of the         *)
(* dashboard (src/src/pages/Dashboard.tsx, MapComponent in                 *)
(* src/unnamed/part_000, src/src/utils/objectGeo.ts).                      *)
(*                                                                         *)
(* Units.  Latitudes and longitudes are integers in millidegrees           *)
(* (14298 is 14.298 degrees), distances are integers in metres, speeds in  *)
(* metres per second, ETAs in tenths of a second.  Centroids of clusters   *)
(* are exact fractions [n, d] of millidegrees.                             *)
(***************************************************************************)
EXTENDS Integers, Sequences, FiniteSets, TLC

(***************************************************************************)
(* Raw JSON values (NumericLike, objectGeo.ts:3): a number, a string, null *)
(* or an absent field.  A string is represented by what parseFloat makes   *)
(* of it: v is the parsed number, or NaN when the text is not numeric.     *)
(***************************************************************************)
NaN == -999999

Num(x) == [k |-> "number", v |-> x]
Str(x) == [k |-> "string", v |-> x]
StrBad == [k |-> "string", v |-> NaN]
Undef == [k |-> "undefined", v |-> 0]
JNull == [k |-> "null", v |-> 0]

\* The absent value of a model variable (null / undefined reference).
Null == [k |-> "null"]

isFinite(x) == x # NaN

\* typeof value === 'number' ? value : parseFloat(String(value))
parseFloatOf(raw) ==
  IF raw.k = "number" THEN raw.v
  ELSE IF raw.k = "string" THEN raw.v
  ELSE NaN

\* toOptionalNumber: a finite number, a string that parses, otherwise null
\* (null is NaN here: the callers only test the result against null).
toOptionalNumber(raw) ==
  IF raw.k = "number" /\ isFinite(raw.v) THEN raw.v
  ELSE IF raw.k = "string" THEN (IF isFinite(raw.v) THEN raw.v ELSE NaN)
  ELSE NaN

\* a ?? b
Coalesce(a, b) == IF a.k \in {"undefined", "null"} THEN b ELSE a

\* Mutant of getPrimaryCoordinates: a coordinate that does not resolve becomes 0.
getPrimaryCoordinatesOrZero(object) ==
  LET lat == toOptionalNumber(Coalesce(object.lat, Coalesce(object.latitude, JNull)))
      lng == toOptionalNumber(Coalesce(object.lng, Coalesce(object.long, Coalesce(object.lon, JNull))))
  IN  IF lat = NaN /\ lng = NaN THEN Null
      ELSE [k |-> "coords", lat |-> IF lat = NaN THEN 0 ELSE lat, lng |-> IF lng = NaN THEN 0 ELSE lng]

\* getPrimaryCoordinates: direct fields only, aliases chained with ??.
getPrimaryCoordinates(object) ==
  LET lat == toOptionalNumber(Coalesce(object.lat, Coalesce(object.latitude, JNull)))
      lng == toOptionalNumber(Coalesce(object.lng, Coalesce(object.long, Coalesce(object.lon, JNull))))
  IN  IF lat = NaN \/ lng = NaN THEN Null
      ELSE [k |-> "coords", lat |-> lat, lng |-> lng]

(***************************************************************************)
(* objectGeo.ts: the resolver that falls back to the nested telemetry      *)
(* block.  The dashboard and the map do not call it.                       *)
(***************************************************************************)
toValidNumber(raw) ==
  IF raw.k = "number" /\ isFinite(raw.v) THEN raw.v
  ELSE IF raw.k = "string" THEN (IF isFinite(raw.v) THEN raw.v ELSE NaN)
  ELSE NaN

RECURSIVE extractFromKeys(_)
extractFromKeys(candidates) ==
  IF candidates = <<>> THEN NaN
  ELSE IF toValidNumber(Head(candidates)) # NaN THEN toValidNumber(Head(candidates))
  ELSE extractFromKeys(Tail(candidates))

\* extractFromSource(object, keys) ?? extractFromSource(object.details, keys)
getObjectLatitude(object) ==
  LET direct == extractFromKeys(<<object.lat, object.latitude>>)
  IN  IF direct # NaN THEN direct
      ELSE IF object.details.present THEN extractFromKeys(<<object.details.lat>>)
      ELSE NaN

getObjectLongitude(object) ==
  LET direct == extractFromKeys(<<object.lng, object.lon, object.long>>)
  IN  IF direct # NaN THEN direct
      ELSE IF object.details.present THEN extractFromKeys(<<object.details.lng>>)
      ELSE NaN

(***************************************************************************)
(* Haversine distance in whole metres, evaluated in integer arithmetic     *)
(* for points a few kilometres apart: the arc is the chord, pi / 180 is    *)
(* 3491 / 200000 (1 millidegree of latitude is 111.2 m), and cos(lat) is   *)
(* 1 - lat^2/2 in thousandths.                                             *)
(***************************************************************************)
EARTH_RADIUS_METERS == 6371000

Abs(x) == IF x < 0 THEN -x ELSE x

RECURSIVE SqrtBetween(_, _, _)
SqrtBetween(n, lo, hi) ==
  IF lo >= hi THEN lo
  ELSE LET mid == (lo + hi + 1) \div 2
       IN  IF mid * mid <= n THEN SqrtBetween(n, mid, hi)
           ELSE SqrtBetween(n, lo, mid - 1)

ISqrt(n) == SqrtBetween(n, 0, 40000)

\* EARTH_RADIUS_METERS * toRadians(d / 1000), in metres
ArcMeters(mdeg) == (Abs(mdeg) * (EARTH_RADIUS_METERS \div 1000) * 3491) \div 200000

\* Math.cos(toRadians(lat / 1000)) * 1000
CosMilli(lat) == 1000 - (lat * lat) \div 6565600

calculateDistanceMeters(from, to) ==
  LET y == ArcMeters(to.lat - from.lat)
      x == (ArcMeters(to.lng - from.lng) * ISqrt(CosMilli(from.lat) * CosMilli(to.lat))) \div 1000
  IN  ISqrt(x * x + y * y)

(***************************************************************************)
(* buildLatestObjects.  A JS Map is a sequence of [key, value] in          *)
(* insertion order; set() on a present key replaces the value in place.    *)
(***************************************************************************)
\* new Date(timestamp).getTime() of the ISO timestamps of the model
DateGetTime(timestamp) ==
  CASE timestamp = "2025-01-01T10:00:01Z" -> 1
    [] timestamp = "2025-01-01T10:00:02Z" -> 2
    [] timestamp = "2025-01-01T10:00:03Z" -> 3
    [] OTHER -> NaN

MapHas(map, key) == \E i \in 1..Len(map) : map[i].key = key

MapSet(map, key, value) ==
  IF MapHas(map, key)
  THEN [i \in 1..Len(map) |-> IF map[i].key = key THEN [key |-> key, value |-> value] ELSE map[i]]
  ELSE Append(map, [key |-> key, value |-> value])

MapValues(map) == [i \in 1..Len(map) |-> map[i].value]

\* The objects of the events in iteration order, each with its event's timestamp.
RECURSIVE EachObject(_)
EachObject(events) ==
  IF events = <<>> THEN <<>>
  ELSE [i \in 1..Len(Head(events).objects) |->
          [object |-> Head(events).objects[i], timestamp |-> Head(events).timestamp]]
       \o EachObject(Tail(events))

\* Mutant of SetEach: an id already in the map keeps its first entry.
RECURSIVE SetEachFirstWins(_, _)
SetEachFirstWins(map, visits) ==
  IF visits = <<>> THEN map
  ELSE SetEachFirstWins(
         IF MapHas(map, Head(visits).object.obj_id) THEN map
         ELSE MapSet(map, Head(visits).object.obj_id,
                     [object |-> Head(visits).object, lastSeen |-> Head(visits).timestamp]),
         Tail(visits))

RECURSIVE SetEach(_, _)
SetEach(map, visits) ==
  IF visits = <<>> THEN map
  ELSE SetEach(MapSet(map, Head(visits).object.obj_id,
                      [object |-> Head(visits).object, lastSeen |-> Head(visits).timestamp]),
               Tail(visits))

\* Array.prototype.sort is stable: x goes after every entry that does not sort after it.
RECURSIVE InsertByLastSeen(_, _)
InsertByLastSeen(x, sorted) ==
  IF sorted = <<>> THEN <<x>>
  ELSE IF DateGetTime(x.lastSeen) - DateGetTime(Head(sorted).lastSeen) > 0
       THEN <<x>> \o sorted
       ELSE <<Head(sorted)>> \o InsertByLastSeen(x, Tail(sorted))

\* a registry handed out in the order of the Map
SortByLastSeenSkipped(entries) == entries

RECURSIVE SortByLastSeen(_)
SortByLastSeen(entries) ==
  IF entries = <<>> THEN <<>>
  ELSE InsertByLastSeen(entries[Len(entries)], SortByLastSeen(SubSeq(entries, 1, Len(entries) - 1)))

buildLatestObjects(events) == SortByLastSeen(MapValues(SetEach(<<>>, EachObject(events))))

(***************************************************************************)
(* getMarkerDescriptors.  A centroid is the exact fraction n / d.          *)
(***************************************************************************)
RECURSIVE Gcd(_, _)
Gcd(a, b) == IF b = 0 THEN a ELSE Gcd(b, a % b)

Frac(n, d) == LET g == Gcd(Abs(n), d) IN [n |-> n \div g, d |-> d \div g]

\* c + (x - c) / total
\* a centroid that moves half way to each newcomer
RunningMeanHalfWay(c, x, total) == Frac(c.n + x * c.d, 2 * c.d)

RunningMean(c, x, total) == Frac(c.n * total + x * c.d - c.n, c.d * total)

\* zoom >= 13 ? 0.002 : zoom >= 11 ? 0.004 : 0.01, in millidegrees
Tolerance(zoom) == IF zoom >= 13 THEN 2 ELSE IF zoom >= 11 THEN 4 ELSE 10

\* distanceBetween(item.lat, item.lng, lat, lng) < tolerance, both sides squared
distanceBetweenLess(item, lat, lng, tolerance) ==
  LET a == item.lat.n - lat * item.lat.d
      b == item.lng.n - lng * item.lng.d
      dd == item.lat.d * item.lat.d * item.lng.d * item.lng.d
  IN  a * a * item.lng.d * item.lng.d + b * b * item.lat.d * item.lat.d < tolerance * tolerance * dd

\* a search that takes the first cluster there is, near or far
FindClusterAnyDistance(clusters, lat, lng, tolerance) == IF Len(clusters) > 0 THEN 1 ELSE 0

\* a search that takes the last cluster within the tolerance
FindClusterLast(clusters, lat, lng, tolerance) ==
  IF \E i \in 1..Len(clusters) : distanceBetweenLess(clusters[i], lat, lng, tolerance)
  THEN CHOOSE i \in 1..Len(clusters) :
         /\ distanceBetweenLess(clusters[i], lat, lng, tolerance)
         /\ \A j \in (i + 1)..Len(clusters) : ~distanceBetweenLess(clusters[j], lat, lng, tolerance)
  ELSE 0

\* clusters.find(...): the index of the first cluster within the tolerance, 0 when none
FindCluster(clusters, lat, lng, tolerance) ==
  IF \E i \in 1..Len(clusters) : distanceBetweenLess(clusters[i], lat, lng, tolerance)
  THEN CHOOSE i \in 1..Len(clusters) :
         /\ distanceBetweenLess(clusters[i], lat, lng, tolerance)
         /\ \A j \in 1..(i - 1) : ~distanceBetweenLess(clusters[j], lat, lng, tolerance)
  ELSE 0

\* a pass that leaves out an object that finds a cluster
AddToClusterLosesJoiner(clusters, object, tolerance) ==
  LET coords == getPrimaryCoordinates(object)
  IN  IF coords = Null THEN clusters
      ELSE IF FindCluster(clusters, coords.lat, coords.lng, tolerance) # 0 THEN clusters
      ELSE Append(clusters, [lat |-> Frac(coords.lat, 1), lng |-> Frac(coords.lng, 1),
                             objects |-> <<object>>])

AddToCluster(clusters, object, tolerance) ==
  LET coords == getPrimaryCoordinates(object)
  IN  IF coords = Null THEN clusters
      ELSE LET found == FindCluster(clusters, coords.lat, coords.lng, tolerance)
           IN  IF found # 0
               THEN LET total == Len(clusters[found].objects) + 1
                    IN  [clusters EXCEPT ![found] =
                           [lat |-> RunningMean(@.lat, coords.lat, total),
                            lng |-> RunningMean(@.lng, coords.lng, total),
                            objects |-> Append(@.objects, object)]]
               ELSE Append(clusters, [lat |-> Frac(coords.lat, 1), lng |-> Frac(coords.lng, 1),
                                      objects |-> <<object>>])

RECURSIVE BuildClusters(_, _, _)
BuildClusters(clusters, items, tolerance) ==
  IF items = <<>> THEN clusters
  ELSE BuildClusters(AddToCluster(clusters, Head(items), tolerance), Tail(items), tolerance)

\* items.map(...).filter(Boolean) of the zoom >= 15 branch
RECURSIVE SingleDescriptors(_)
SingleDescriptors(items) ==
  IF items = <<>> THEN <<>>
  ELSE LET coords == getPrimaryCoordinates(Head(items))
       IN  (IF coords = Null THEN <<>>
            ELSE <<[type |-> "single", lat |-> Frac(coords.lat, 1), lng |-> Frac(coords.lng, 1),
                    object |-> Head(items)]>>)
           \o SingleDescriptors(Tail(items))

\* an emitter without the size-1 case
ClusterDescriptorAlways(cluster) ==
  [type |-> "cluster", lat |-> cluster.lat, lng |-> cluster.lng, objects |-> cluster.objects]

ClusterDescriptor(cluster) ==
  IF Len(cluster.objects) = 1
  THEN [type |-> "single", lat |-> cluster.lat, lng |-> cluster.lng, object |-> cluster.objects[1]]
  ELSE [type |-> "cluster", lat |-> cluster.lat, lng |-> cluster.lng, objects |-> cluster.objects]

\* a layout that clusters at every zoom
getMarkerDescriptorsAnyZoom(items, zoom) ==
  IF Len(items) = 0 THEN <<>>
  ELSE LET clusters == BuildClusters(<<>>, items, Tolerance(zoom))
       IN  [i \in 1..Len(clusters) |-> ClusterDescriptor(clusters[i])]

getMarkerDescriptors(items, zoom) ==
  IF Len(items) = 0 THEN <<>>
  ELSE IF zoom >= 15 THEN SingleDescriptors(items)
  ELSE LET clusters == BuildClusters(<<>>, items, Tolerance(zoom))
       IN  [i \in 1..Len(clusters) |-> ClusterDescriptor(clusters[i])]

\* defensiveObjects.map(({ object }) => object)
ObjectsOf(entries) == [i \in 1..Len(entries) |-> entries[i].object]

(***************************************************************************)
(* DefensiveAlertPanel.intruders                                           *)
(***************************************************************************)
\* speed && speed > 0 ? distance / speed : null, in tenths of a second
EtaSeconds(object, distance) ==
  LET speed == IF object.speed.k = "number" THEN object.speed.v ELSE 0
  IN  IF speed # 0 /\ speed # NaN /\ speed > 0 THEN Num((distance * 10) \div speed) ELSE JNull

\* Mutant of SeeObject: the distance is not compared with the radius.
SeeObjectAnyDistance(seen, object, defaultLocation, detectionRadius) ==
  LET lat == parseFloatOf(object.lat)
      lng == parseFloatOf(object.lng)
  IN  IF ~isFinite(lat) \/ ~isFinite(lng) THEN seen
      ELSE LET distance == calculateDistanceMeters(defaultLocation, [lat |-> lat, lng |-> lng])
           IN  IF ~MapHas(seen, object.obj_id)
               THEN MapSet(seen, object.obj_id,
                           [object |-> object, distance |-> distance,
                            etaSeconds |-> EtaSeconds(object, distance)])
               ELSE seen

\* Mutant of SeeObject: a later occurrence of a recorded id replaces the entry.
SeeObjectLastWins(seen, object, defaultLocation, detectionRadius) ==
  LET lat == parseFloatOf(object.lat)
      lng == parseFloatOf(object.lng)
  IN  IF ~isFinite(lat) \/ ~isFinite(lng) THEN seen
      ELSE LET distance == calculateDistanceMeters(defaultLocation, [lat |-> lat, lng |-> lng])
           IN  IF distance > detectionRadius THEN seen
               ELSE MapSet(seen, object.obj_id,
                           [object |-> object, distance |-> distance,
                            etaSeconds |-> EtaSeconds(object, distance)])

\* the body of the inner forEach for one object
SeeObject(seen, object, defaultLocation, detectionRadius) ==
  LET lat == parseFloatOf(object.lat)
      lng == parseFloatOf(object.lng)
  IN  IF ~isFinite(lat) \/ ~isFinite(lng) THEN seen
      ELSE LET distance == calculateDistanceMeters(defaultLocation, [lat |-> lat, lng |-> lng])
           IN  IF distance > detectionRadius THEN seen
               ELSE IF ~MapHas(seen, object.obj_id)
                    THEN MapSet(seen, object.obj_id,
                                [object |-> object, distance |-> distance,
                                 etaSeconds |-> EtaSeconds(object, distance)])
                    ELSE seen

RECURSIVE SeeEach(_, _, _, _)
SeeEach(seen, visits, defaultLocation, detectionRadius) ==
  IF visits = <<>> THEN seen
  ELSE SeeEach(SeeObject(seen, Head(visits).object, defaultLocation, detectionRadius),
               Tail(visits), defaultLocation, detectionRadius)

RECURSIVE InsertByDistance(_, _)
InsertByDistance(x, sorted) ==
  IF sorted = <<>> THEN <<x>>
  ELSE IF x.distance - Head(sorted).distance < 0
       THEN <<x>> \o sorted
       ELSE <<Head(sorted)>> \o InsertByDistance(x, Tail(sorted))

\* Mutant of SortByDistance: the entries stay in the order they were recorded.
SortByDistanceOmitted(entries) == entries

RECURSIVE SortByDistance(_)
SortByDistance(entries) ==
  IF entries = <<>> THEN <<>>
  ELSE InsertByDistance(entries[Len(entries)], SortByDistance(SubSeq(entries, 1, Len(entries) - 1)))

\* Mutant of Intruders: the guard lets a radius of zero through.
IntrudersZeroRadiusAllowed(events, defaultLocation, detectionRadius) ==
  IF defaultLocation = Null \/ detectionRadius < 0 THEN <<>>
  ELSE SortByDistance(MapValues(SeeEach(<<>>, EachObject(events), defaultLocation, detectionRadius)))

\* a pass that looks at the first occurrence of each id only
RECURSIVE FirstOccurrences(_, _)
FirstOccurrences(visits, ids) ==
  IF visits = <<>> THEN <<>>
  ELSE IF Head(visits).object.obj_id \in ids THEN FirstOccurrences(Tail(visits), ids)
  ELSE <<Head(visits)>> \o FirstOccurrences(Tail(visits), ids \cup {Head(visits).object.obj_id})

IntrudersFirstOccurrenceOnly(events, defaultLocation, detectionRadius) ==
  IF defaultLocation = Null \/ detectionRadius <= 0 THEN <<>>
  ELSE SortByDistance(MapValues(SeeEach(<<>>, FirstOccurrences(EachObject(events), {}),
                                        defaultLocation, detectionRadius)))

Intruders(events, defaultLocation, detectionRadius) ==
  IF defaultLocation = Null \/ detectionRadius <= 0 THEN <<>>
  ELSE SortByDistance(MapValues(SeeEach(<<>>, EachObject(events), defaultLocation, detectionRadius)))

(***************************************************************************)
(* formatEta.  seconds is null or a number in tenths of a second; the text *)
(* is the string the ETA cell shows.                                       *)
(***************************************************************************)
\* Math.round of tenths: the nearest whole number, a half goes up
MathRound(tenths) == (tenths + 5) \div 10

\* Math.max
MathMax(a, b) == IF a >= b THEN a ELSE b

\* a format without the floor of one second
formatEtaNoMinimum(seconds) ==
  IF seconds.k = "null" \/ ~isFinite(seconds.v) THEN "N/A"
  ELSE IF seconds.v < 600 THEN ToString(MathRound(seconds.v)) \o "s"
  ELSE LET minutes == seconds.v \div 600
           secs == MathRound(seconds.v % 600)
       IN  IF secs > 0 THEN ToString(minutes) \o "m " \o ToString(secs) \o "s"
           ELSE ToString(minutes) \o "m"

formatEta(seconds) ==
  IF seconds.k = "null" \/ ~isFinite(seconds.v) THEN "N/A"
  ELSE IF seconds.v < 600 THEN ToString(MathMax(1, MathRound(seconds.v))) \o "s"
  ELSE LET minutes == seconds.v \div 600
           secs == MathRound(seconds.v % 600)
       IN  IF secs > 0 THEN ToString(minutes) \o "m " \o ToString(secs) \o "s"
           ELSE ToString(minutes) \o "m"

(***************************************************************************)
(* createCirclePolygon.  A coordinate is [micro, zepto]: millionths of a   *)
(* degree plus a remainder in units of 1e-21 degree, the part of an IEEE   *)
(* double that survives when a tiny offset is added to the centre.  Angles *)
(* are 64ths of a turn; steps divides 64.                                  *)
(***************************************************************************)
Sign(x) == IF x < 0 THEN -1 ELSE 1

\* Math.sin of 0/64 .. 16/64 of a turn, times 1000
SinTable == <<0, 98, 195, 290, 383, 471, 556, 634, 707, 773, 831, 882, 924, 957, 981, 995, 1000>>

\* Math.sin(k / 64 * 2 * Math.PI) * 1000, k in 0..64
SinMilli(k) ==
  IF k <= 16 THEN SinTable[k + 1]
  ELSE IF k <= 32 THEN SinTable[32 - k + 1]
  ELSE IF k <= 48 THEN -SinTable[k - 32 + 1]
  ELSE -SinTable[64 - k + 1]

\* Math.cos(k / 64 * 2 * Math.PI) * 1000
CosMilliOfTurn(k) == SinMilli((k + 16) % 64)

\* What Math.sin returns where the sine is zero: sin(Math.PI) is 1.2246e-16
\* and sin(2 * Math.PI) is -2.4493e-16, here as the offset they give per
\* metre of radius, in 1e-25 degree; sin(0) is 0.
SinTail(k) == IF k = 64 THEN -22027 ELSE IF k = 32 THEN 11013 ELSE 0

\* Math.cos(Math.PI / 2) is 6.1232e-17, Math.cos(3 * Math.PI / 2) is -1.8370e-16
CosTail(k) == IF k = 16 THEN 5507 ELSE IF k = 48 THEN -16520 ELSE 0

\* radius times a tail, in 1e-21 degree
TailZepto(radiusMeters, tail) ==
  Sign(tail) * ((radiusMeters \div 10000) * Abs(tail)
                + ((radiusMeters % 10000) * Abs(tail)) \div 10000)

\* (metres / EARTH_RADIUS_METERS) * 180 / Math.PI in millionths of a degree:
\* 8.993 per metre
OffsetMicro(meters) == Sign(meters) * (Abs(meters) * 9 - (Abs(meters) * 7) \div 1000)

\* x / Math.cos(center.lat * Math.PI / 180)
OverCos(x, lat) ==
  Sign(x) * ((Abs(x) \div CosMilli(lat)) * 1000 + ((Abs(x) % CosMilli(lat)) * 1000) \div CosMilli(lat))

\* The spacing of the doubles around a value of a millionths of a degree, in
\* 1e-21 degree: 2^-52 degree (222045) in [1, 2), doubling with each binade.
RECURSIVE UlpFrom(_, _, _)
UlpFrom(a, lo, u) ==
  IF a >= 2 * lo THEN UlpFrom(a, 2 * lo, 2 * u)
  ELSE IF a < lo THEN UlpFrom(a, lo \div 2, u \div 2)
  ELSE u

UlpZepto(micro) == UlpFrom(Abs(micro), 1000000, 222045)

\* center + offset in double arithmetic: an offset of millionths carries the
\* sum; a tiny offset alone is exact at 0 and otherwise rounded to the
\* nearest double around the centre, which is the centre itself below half
\* a spacing.
FloatAdd(micro, offsetMicro, offsetZepto) ==
  IF offsetMicro # 0 THEN [micro |-> micro + offsetMicro, zepto |-> 0]
  ELSE IF micro = 0 THEN [micro |-> 0, zepto |-> offsetZepto]
  ELSE LET u == UlpZepto(micro)
       IN  [micro |-> micro,
            zepto |-> Sign(offsetZepto) * (((2 * Abs(offsetZepto) + u) \div (2 * u)) * u)]

\* coords[i]: [lng, lat] at angle i / steps of a turn
CirclePoint(center, radiusMeters, steps, i) ==
  LET k == (i * 64) \div steps
      dy == OffsetMicro((radiusMeters * SinMilli(k)) \div 1000)
      dx == OffsetMicro((radiusMeters * CosMilliOfTurn(k)) \div 1000)
      lat == FloatAdd(center.lat * 1000, dy, TailZepto(radiusMeters, SinTail(k)))
      lng == FloatAdd(center.lng * 1000, OverCos(dx, center.lat),
                      (TailZepto(radiusMeters, CosTail(k)) * 1000) \div CosMilli(center.lat))
  IN  <<lng, lat>>

createCirclePolygon(center, radiusMeters, steps) ==
  [j \in 1..(steps + 1) |-> CirclePoint(center, radiusMeters, steps, j - 1)]

(***************************************************************************)
(* Inputs: the defended points, the detected objects and the events the    *)
(* history API and the socket deliver.                                     *)
(***************************************************************************)
DEFAULT_DEFENCE_LOCATION == [lat |-> 14298, lng |-> 101166]
DEFAULT_OFFENCE_LOCATION == [lat |-> 14286, lng |-> 101171]

NoDetails == [present |-> FALSE, lat |-> Undef, lng |-> Undef, speed |-> Undef]

Obj(id, lat, lng, speed, details) ==
  [obj_id |-> id, lat |-> lat, lng |-> lng, latitude |-> Undef, lon |-> Undef, long |-> Undef,
   speed |-> speed, details |-> details]

\* 556 m north of the default defended point, 10 m/s
oNear == Obj("obj_001", Num(14303), Num(101166), Num(10), NoDetails)
\* 1000 m north, the speed only in the telemetry block
oMid == Obj("obj_001", Num(14307), Num(101166), Undef,
            [present |-> TRUE, lat |-> Num(14307), lng |-> Num(101166), speed |-> Num(10)])
\* 2224 m north, standing still
oFar == Obj("obj_001", Num(14318), Num(101166), Num(0), NoDetails)
\* coordinates as numeric strings, the speed as a string
oStr == Obj("obj_002", Str(14304), Str(101167), Str(5), NoDetails)
\* lat: "14.3", no longitude anywhere
oNoLng == Obj("obj_002", Str(14300), Undef, Num(10), NoDetails)
\* no direct coordinates, the telemetry block has them
oNested == Obj("obj_002", Undef, JNull,
               Num(5),
               [present |-> TRUE, lat |-> Num(14303), lng |-> Str(101166), speed |-> Undef])
\* coordinates under the alias keys latitude / long
oAlias == [Obj("obj_003", Undef, Undef, Num(-3), NoDetails)
             EXCEPT !.latitude = Num(14299), !.long = Num(101165)]
\* on the default defended point
oAt == Obj("obj_003", Num(14298), Num(101166), StrBad, NoDetails)

Event(timestamp, objects) == [timestamp |-> timestamp, objects |-> objects]

T1 == "2025-01-01T10:00:01Z"
T2 == "2025-01-01T10:00:02Z"
T3 == "2025-01-01T10:00:03Z"

EventPool ==
  { Event(T2, <<oNear>>), Event(T1, <<oMid>>), Event(T3, <<oFar>>),
    Event(T2, <<oStr>>), Event(T1, <<oNoLng>>), Event(T3, <<oNested>>),
    Event(T1, <<oAlias>>), Event(T2, <<oAt, oStr>>), Event(T3, <<oMid, oNear>>),
    Event(T1, <<>>) }

\* The longest working event list the model follows.
MaxEvents == 2

\* data.data of a successful history fetch
HistoryResponses ==
  { <<>>, <<Event(T2, <<oNear>>), Event(T1, <<oMid>>)>>,
    <<Event(T1, <<oMid>>), Event(T2, <<oNear>>)>>, <<Event(T2, <<oStr>>)>> }

Zooms == {10, 12, 14, 17}

DragTargets == {DEFAULT_DEFENCE_LOCATION, DEFAULT_OFFENCE_LOCATION}

\* What the user types into the radius field, and Number() / String() of it.
RadiusTexts == {"800", "0", "abc"}

NumberOf(text) ==
  CASE text = "800" -> 800
    [] text = "1500" -> 1500
    [] text = "0" -> 0
    [] OTHER -> NaN

StringOf(n) ==
  CASE n = 800 -> "800"
    [] n = 1500 -> "1500"
    [] n = 0 -> "0"
    [] n = -100 -> "-100"
    [] OTHER -> "NaN"

(***************************************************************************)
(* State of the defensive half of DashboardPage.                           *)
(***************************************************************************)
VARIABLES
  events,                    \* useDroneFeed: the working event list
  latestObjects,             \* DashboardPage.defensiveObjects
  objects,                   \* MapComponent's objects prop
  currentZoom,               \* MapComponent.currentZoom
  markerDescriptors,         \* MapComponent.markerDescriptors
  defensiveRadius,           \* DashboardPage.defensiveRadius
  radiusInput,               \* DefensiveAlertPanel.radiusInput
  defensiveDefaultLocation,  \* DashboardPage.defensiveDefaultLocation
  intruders                  \* DefensiveAlertPanel.intruders

\* createCirclePolygon called on its own: its steps argument and the ring
\* it returned; the centre and the radius are the defended point and the
\* detection radius above.
VARIABLES
  steps,
  ring

\* MapComponent's search box and its messages
VARIABLES
  searchValue,       \* text of the search field
  searchOptions,     \* the suggestion list
  searchLoading,     \* the spinner of the search field
  suggestTimeout,    \* the pending 350 ms timeout of the suggestion effect, [query], or Null
  suggestFetches,    \* queries of the suggestion fetches in flight whose signal is not aborted
  locationFetches,   \* queries of the direct searches in flight
  searchFeedback,    \* the message under the search field, or Null
  showDefaultInfo    \* the tooltip of the default marker

\* HistoryPanel's clear command
VARIABLES
  isClearing,        \* the clear button is disabled
  clearStatus,       \* the alert above the history list, or Null
  clearFetch         \* the DELETE request is in flight

\* The ETA of one row of DefensiveAlertPanel's list
VARIABLES
  etaSeconds,        \* the etaSeconds of the row, JNull or Num(tenths of a second)
  etaText            \* formatEta(etaSeconds) as rendered

etaVars == <<etaSeconds, etaText>>

searchVars == <<searchValue, searchOptions, searchLoading, suggestTimeout, suggestFetches,
                locationFetches, searchFeedback>>

historyVars == <<isClearing, clearStatus, clearFetch>>

\* The state outside the dashboard's feed, map layout and alert panel.
otherVars == <<steps, ring, searchVars, historyVars, etaVars>>

\* MapComponent and HistoryPanel as they mount, the ETA of a row without a
\* speed.
InitUi ==
  /\ etaSeconds = JNull
  /\ etaText = formatEta(JNull)
  /\ searchValue = ""
  /\ searchOptions = <<>>
  /\ searchLoading = FALSE
  /\ suggestTimeout = Null
  /\ suggestFetches = {}
  /\ locationFetches = {}
  /\ searchFeedback = Null
  /\ showDefaultInfo = FALSE
  /\ isClearing = FALSE
  /\ clearStatus = Null
  /\ clearFetch = FALSE

vars == <<events, latestObjects, objects, currentZoom, markerDescriptors, defensiveRadius, radiusInput,
          defensiveDefaultLocation, intruders, showDefaultInfo, otherVars>>

\* a render whose alert list is still the one of the previous event list
RenderAlertsBehind(ev, zoom, location, radius) ==
  /\ latestObjects' = buildLatestObjects(ev)
  /\ objects' = ObjectsOf(latestObjects')
  /\ markerDescriptors' = getMarkerDescriptors(objects', zoom)
  /\ intruders' = Intruders(events, location, radius)

\* One render: each memoised value is recomputed when one of its useMemo
\* dependencies changed and kept otherwise, the registry first, then the
\* map's descriptors and the panel's intruders.
Render(ev, zoom, location, radius) ==
  /\ latestObjects' = IF ev = events THEN latestObjects
                      ELSE buildLatestObjects(ev)
  /\ objects' = IF ev = events THEN objects ELSE ObjectsOf(latestObjects')
  /\ markerDescriptors' =
       IF ev = events /\ zoom = currentZoom THEN markerDescriptors
       ELSE getMarkerDescriptors(objects', zoom)
  /\ intruders' =
       IF /\ ev = events
          /\ location = defensiveDefaultLocation
          /\ radius = defensiveRadius
       THEN intruders
       ELSE Intruders(ev, location, radius)

Init ==
  /\ events = <<>>
  /\ currentZoom = 17
  /\ defensiveRadius = 1500
  /\ radiusInput = StringOf(1500)
  /\ defensiveDefaultLocation = DEFAULT_DEFENCE_LOCATION
  /\ latestObjects = buildLatestObjects(<<>>)
  /\ objects = <<>>
  /\ ring = <<>>
  /\ steps = 64
  /\ InitUi
  /\ markerDescriptors = getMarkerDescriptors(<<>>, 17)
  /\ intruders = Intruders(<<>>, DEFAULT_DEFENCE_LOCATION, 1500)

\* a delivery that keeps the events already in the list behind the batch
HistoryDeliveredMerges(data) ==
  /\ events' = data \o events
  /\ Render(data \o events, currentZoom, defensiveDefaultLocation, defensiveRadius)
  /\ UNCHANGED <<currentZoom, defensiveRadius, radiusInput, defensiveDefaultLocation, showDefaultInfo, otherVars>>

\* useDroneFeed, first effect: if (data?.data) setEvents(data.data)
HistoryDelivered(data) ==
  /\ events' = data
  /\ Render(data, currentZoom, defensiveDefaultLocation, defensiveRadius)
  /\ UNCHANGED <<currentZoom, defensiveRadius, radiusInput, defensiveDefaultLocation, showDefaultInfo, otherVars>>

\* a push that keeps the pushed event only
StreamPushReplaces(realtimeData) ==
  /\ Len(events) < MaxEvents
  /\ events' = <<realtimeData>>
  /\ Render(<<realtimeData>>, currentZoom, defensiveDefaultLocation, defensiveRadius)
  /\ UNCHANGED <<currentZoom, defensiveRadius, radiusInput, defensiveDefaultLocation, showDefaultInfo, otherVars>>

\* useDroneFeed, second effect: setEvents((prev) => [realtimeData, ...prev])
StreamPush(realtimeData) ==
  /\ Len(events) < MaxEvents
  /\ events' = <<realtimeData>> \o events
  /\ Render(<<realtimeData>> \o events, currentZoom, defensiveDefaultLocation, defensiveRadius)
  /\ UNCHANGED <<currentZoom, defensiveRadius, radiusInput, defensiveDefaultLocation, showDefaultInfo, otherVars>>

\* handleZoomChange: setCurrentZoom(map.getZoom())
ZoomChange(zoom) ==
  /\ currentZoom' = zoom
  /\ Render(events, zoom, defensiveDefaultLocation, defensiveRadius)
  /\ UNCHANGED <<events, defensiveRadius, radiusInput, defensiveDefaultLocation, showDefaultInfo, otherVars>>

\* marker.on('dragend'): setDefaultCoordinates(coords), setShowDefaultInfo(true),
\* onDefaultLocationChange(coords)
MarkerDragEnd(coords) ==
  /\ defensiveDefaultLocation' = coords
  /\ showDefaultInfo' = TRUE
  /\ Render(events, currentZoom, coords, defensiveRadius)
  /\ UNCHANGED <<events, currentZoom, defensiveRadius, radiusInput, otherVars>>

\* The 4000 ms timeout armed by the effect on showDefaultInfo:
\* setShowDefaultInfo(false)
DefaultInfoTimeout ==
  /\ showDefaultInfo
  /\ showDefaultInfo' = FALSE
  /\ UNCHANGED <<events, latestObjects, objects, currentZoom, markerDescriptors, defensiveRadius,
                 radiusInput, defensiveDefaultLocation, intruders, otherVars>>

\* TextField onChange: setRadiusInput(e.target.value)
RadiusTyped(text) ==
  /\ radiusInput' = text
  /\ UNCHANGED <<events, latestObjects, objects, currentZoom, markerDescriptors, defensiveRadius,
                 defensiveDefaultLocation, intruders, showDefaultInfo, otherVars>>

\* a submit that turns away only what is not a number
HandleRadiusSubmitAnyNumber ==
  LET parsed == NumberOf(radiusInput)
  IN  IF ~isFinite(parsed)
      THEN /\ radiusInput' = StringOf(defensiveRadius)
           /\ UNCHANGED <<events, latestObjects, objects, currentZoom, markerDescriptors, defensiveRadius,
                          defensiveDefaultLocation, intruders, showDefaultInfo, otherVars>>
      ELSE /\ defensiveRadius' = parsed
           /\ radiusInput' = StringOf(parsed)
           /\ Render(events, currentZoom, defensiveDefaultLocation, parsed)
           /\ UNCHANGED <<events, currentZoom, defensiveDefaultLocation, showDefaultInfo, otherVars>>

\* handleRadiusSubmit, and the effect that copies the radius into the field
HandleRadiusSubmit ==
  LET parsed == NumberOf(radiusInput)
  IN  IF ~isFinite(parsed) \/ parsed <= 0
      THEN /\ radiusInput' = StringOf(defensiveRadius)
           /\ UNCHANGED <<events, latestObjects, objects, currentZoom, markerDescriptors, defensiveRadius,
                          defensiveDefaultLocation, intruders, showDefaultInfo, otherVars>>
      ELSE /\ defensiveRadius' = parsed
           /\ radiusInput' = StringOf(parsed)
           /\ Render(events, currentZoom, defensiveDefaultLocation, parsed)
           /\ UNCHANGED <<events, currentZoom, defensiveDefaultLocation, showDefaultInfo, otherVars>>

Next ==
  \/ \E data \in HistoryResponses : HistoryDelivered(data)
  \/ \E realtimeData \in EventPool : StreamPush(realtimeData)
  \/ \E zoom \in Zooms : ZoomChange(zoom)
  \/ \E coords \in DragTargets : MarkerDragEnd(coords)
  \/ \E text \in RadiusTexts : RadiusTyped(text)
  \/ HandleRadiusSubmit
  \/ DefaultInfoTimeout

Spec == Init /\ [][Next]_vars

(***************************************************************************)
(* DefensiveAlertPanel on its own: the props feed.events, detectionRadius  *)
(* and defaultLocation (LatLng | null) take any value of their types.      *)
(***************************************************************************)
PanelRadii == {-100, 0, 800, 1500}

PanelLocations == {Null} \cup DragTargets

\* mounted on an empty feed, as useDroneFeed starts
InitPanel ==
  /\ events = <<>>
  /\ defensiveRadius \in PanelRadii
  /\ defensiveDefaultLocation \in PanelLocations
  /\ radiusInput = StringOf(defensiveRadius)
  /\ intruders = Intruders(events, defensiveDefaultLocation, defensiveRadius)
  /\ currentZoom = 17
  /\ latestObjects = <<>>
  /\ objects = <<>>
  /\ markerDescriptors = <<>>
  /\ ring = <<>>
  /\ steps = 64
  /\ InitUi

\* the feed prop grows by one streamed event
PanelFeedPush(realtimeData) ==
  /\ Len(events) < MaxEvents
  /\ events' = <<realtimeData>> \o events
  /\ intruders' = Intruders(<<realtimeData>> \o events, defensiveDefaultLocation, defensiveRadius)
  /\ UNCHANGED <<latestObjects, objects, currentZoom, markerDescriptors, defensiveRadius, radiusInput,
                 defensiveDefaultLocation, showDefaultInfo, otherVars>>

\* the detectionRadius prop changes; the effect copies it into the field
PanelRadiusProp(radius) ==
  /\ defensiveRadius' = radius
  /\ radiusInput' = StringOf(radius)
  /\ intruders' = Intruders(events, defensiveDefaultLocation, radius)
  /\ UNCHANGED <<events, latestObjects, objects, currentZoom, markerDescriptors, defensiveDefaultLocation, showDefaultInfo, otherVars>>

\* the defaultLocation prop changes
PanelLocationProp(location) ==
  /\ defensiveDefaultLocation' = location
  /\ intruders' = Intruders(events, location, defensiveRadius)
  /\ UNCHANGED <<events, latestObjects, objects, currentZoom, markerDescriptors, defensiveRadius, radiusInput, showDefaultInfo, otherVars>>

NextPanel ==
  \/ \E realtimeData \in EventPool : PanelFeedPush(realtimeData)
  \/ \E radius \in PanelRadii : PanelRadiusProp(radius)
  \/ \E location \in PanelLocations : PanelLocationProp(location)

SpecPanel == InitPanel /\ [][NextPanel]_vars

(***************************************************************************)
(* MapComponent's marker layout on its own: the objects prop is any array  *)
(* of detected objects, the zoom any level the map reports.                *)
(***************************************************************************)
\* same coordinates as oNear, another object
oTwin == Obj("obj_004", Num(14303), Num(101166), Num(10), NoDetails)
\* 0.001 degrees north of oNear
oStep == Obj("obj_005", Num(14304), Num(101166), Num(10), NoDetails)
\* 0.002 degrees north of oNear
oEdge == Obj("obj_006", Num(14305), Num(101166), Num(10), NoDetails)
\* 0.010 degrees from oNear: 0.006 north, 0.008 east
oWide == Obj("obj_007", Num(14309), Num(101174), Num(10), NoDetails)

ClusterPool == {oNear, oTwin, oStep, oEdge, oMid, oWide, oNoLng}

\* The longest objects array the model follows.
MaxItems == 3

ClusterZooms == {10, 11, 12, 13, 14, 15, 17}

InitCluster ==
  /\ objects = <<>>
  /\ currentZoom = 17
  /\ markerDescriptors = getMarkerDescriptors(<<>>, 17)
  /\ events = <<>>
  /\ latestObjects = <<>>
  /\ defensiveRadius = 1500
  /\ radiusInput = "1500"
  /\ defensiveDefaultLocation = DEFAULT_DEFENCE_LOCATION
  /\ intruders = <<>>
  /\ ring = <<>>
  /\ steps = 64
  /\ InitUi

\* the parent renders the map with one more object in the array
ObjectsPropGrows(object) ==
  /\ Len(objects) < MaxItems
  /\ objects' = Append(objects, object)
  /\ markerDescriptors' = getMarkerDescriptors(Append(objects, object), currentZoom)
  /\ UNCHANGED <<events, latestObjects, currentZoom, defensiveRadius, radiusInput,
                 defensiveDefaultLocation, intruders, showDefaultInfo, otherVars>>

\* handleZoomChange under a fixed objects prop
ClusterZoomChange(zoom) ==
  /\ currentZoom' = zoom
  /\ markerDescriptors' = getMarkerDescriptors(objects, zoom)
  /\ UNCHANGED <<events, latestObjects, objects, defensiveRadius, radiusInput,
                 defensiveDefaultLocation, intruders, showDefaultInfo, otherVars>>

NextCluster ==
  \/ \E object \in ClusterPool : ObjectsPropGrows(object)
  \/ \E zoom \in ClusterZooms : ClusterZoomChange(zoom)

SpecCluster == InitCluster /\ [][NextCluster]_vars

(***************************************************************************)
(* MapComponent's search box.  The geocoder is a function of the query; an *)
(* aborted suggestion fetch rejects and its catch and finally blocks do    *)
(* nothing, so it leaves suggestFetches when its controller is aborted.    *)
(***************************************************************************)
dashboardVars == <<events, latestObjects, objects, currentZoom, markerDescriptors, defensiveRadius,
                   radiusInput, defensiveDefaultLocation, intruders>>

\* e.target.value of the search field
SearchTexts == {"", " ba", "ban", "bang "}

\* String.prototype.trim
Trim(text) ==
  CASE text = " ba" -> "ba"
    [] text = "bang " -> "bang"
    [] OTHER -> text

\* query.length
Length(query) ==
  CASE query = "" -> 0
    [] query = "ba" -> 2
    [] query = " ba" -> 3
    [] query = "ban" -> 3
    [] query = "bang" -> 4
    [] query = "bang " -> 5
    [] query = "Bangkok" -> 7
    [] query = "Ban Chang" -> 9

Bangkok == [id |-> "place.1", label |-> "Bangkok", center |-> <<100502, 13756>>]
BanChang == [id |-> "place.2", label |-> "Ban Chang", center |-> <<101050, 12720>>]

\* data.features of the geocoding response, place_name as label
Features(query) ==
  CASE query = "ban" -> <<BanChang, Bangkok>>
    [] query = "bang" -> <<Bangkok>>
    [] query = "Bangkok" -> <<Bangkok>>
    [] query = "Ban Chang" -> <<BanChang>>
    [] OTHER -> <<>>

\* The most direct searches in flight the model follows.
MaxLocationFetches == 1

Feedback(type, message) == [type |-> type, message |-> message]

\* an effect whose cleanup clears the timeout and leaves the fetch alone
SuggestionEffectNoAbort(value, options) ==
  IF value = searchValue
  THEN /\ searchOptions' = options
       /\ UNCHANGED <<suggestTimeout, suggestFetches>>
  ELSE /\ UNCHANGED suggestFetches
       /\ IF Length(Trim(value)) < 3
          THEN searchOptions' = <<>> /\ suggestTimeout' = Null
          ELSE searchOptions' = options /\ suggestTimeout' = [query |-> Trim(value)]

\* The suggestion effect when a render finds searchValue changed to value: the
\* cleanup of the previous run clears its timeout and aborts its controller,
\* the new run empties the list for a query under 3 characters and arms a
\* timeout otherwise.  options is the list the handler itself has set.
SuggestionEffect(value, options) ==
  IF value = searchValue
  THEN /\ searchOptions' = options
       /\ UNCHANGED <<suggestTimeout, suggestFetches>>
  ELSE /\ suggestFetches' = {}
       /\ IF Length(Trim(value)) < 3
          THEN searchOptions' = <<>> /\ suggestTimeout' = Null
          ELSE searchOptions' = options /\ suggestTimeout' = [query |-> Trim(value)]

\* TextField onChange: setSearchValue(e.target.value)
SearchTyped(text) ==
  /\ text # searchValue
  /\ searchValue' = text
  /\ SuggestionEffect(text, searchOptions)
  /\ UNCHANGED <<searchLoading, locationFetches, searchFeedback, showDefaultInfo, historyVars,
                 dashboardVars, steps, ring, etaVars>>

\* the 350 ms timeout: setSearchLoading(true), fetch(..., { signal })
SuggestTimeoutFires ==
  /\ suggestTimeout # Null
  /\ searchLoading' = TRUE
  /\ suggestFetches' = suggestFetches \cup {suggestTimeout.query}
  /\ suggestTimeout' = Null
  /\ UNCHANGED <<searchValue, searchOptions, locationFetches, searchFeedback, showDefaultInfo,
                 historyVars, dashboardVars, steps, ring, etaVars>>

\* the response of a fetch that was not aborted: setSearchOptions(options),
\* finally setSearchLoading(false)
SuggestResponseOk(query) ==
  /\ query \in suggestFetches
  /\ searchOptions' = Features(query)
  /\ searchLoading' = FALSE
  /\ suggestFetches' = suggestFetches \ {query}
  /\ UNCHANGED <<searchValue, suggestTimeout, locationFetches, searchFeedback, showDefaultInfo,
                 historyVars, dashboardVars, steps, ring, etaVars>>

\* !response.ok or a network error: console.error, finally setSearchLoading(false)
SuggestResponseFails(query) ==
  /\ query \in suggestFetches
  /\ searchLoading' = FALSE
  /\ suggestFetches' = suggestFetches \ {query}
  /\ UNCHANGED <<searchValue, searchOptions, suggestTimeout, locationFetches, searchFeedback,
                 showDefaultInfo, historyVars, dashboardVars, steps, ring, etaVars>>

\* handleSearchLocation up to its await
HandleSearchLocation ==
  /\ IF Trim(searchValue) = ""
     THEN /\ searchFeedback' = Feedback("error", "Please enter a location.")
          /\ UNCHANGED locationFetches
     ELSE /\ Cardinality(locationFetches) < MaxLocationFetches
          /\ locationFetches' = locationFetches \cup {Trim(searchValue)}
          /\ UNCHANGED searchFeedback
  /\ UNCHANGED <<searchValue, searchOptions, searchLoading, suggestTimeout, suggestFetches,
                 showDefaultInfo, historyVars, dashboardVars, steps, ring, etaVars>>

\* handleSearchLocation after its await, a feature found
LocationFound(query) ==
  /\ query \in locationFetches
  /\ Features(query) # <<>>
  /\ locationFetches' = locationFetches \ {query}
  /\ searchValue' = Features(query)[1].label
  /\ SuggestionEffect(Features(query)[1].label, <<>>)
  /\ searchFeedback' = Feedback("success", Features(query)[1].label)
  /\ UNCHANGED <<searchLoading, showDefaultInfo, historyVars, dashboardVars, steps, ring, etaVars>>

\* handleSearchLocation after its await, no feature
LocationNotFound(query) ==
  /\ query \in locationFetches
  /\ Features(query) = <<>>
  /\ locationFetches' = locationFetches \ {query}
  /\ searchFeedback' = Feedback("error", "Location not found.")
  /\ UNCHANGED <<searchValue, searchOptions, searchLoading, suggestTimeout, suggestFetches,
                 showDefaultInfo, historyVars, dashboardVars, steps, ring, etaVars>>

\* handleSearchLocation after its await, !response.ok
LocationFails(query) ==
  /\ query \in locationFetches
  /\ locationFetches' = locationFetches \ {query}
  /\ searchFeedback' = Feedback("error", "Unable to search location")
  /\ UNCHANGED <<searchValue, searchOptions, searchLoading, suggestTimeout, suggestFetches,
                 showDefaultInfo, historyVars, dashboardVars, steps, ring, etaVars>>

handleSelectSuggestion(option) ==
  /\ \E i \in 1..Len(searchOptions) : searchOptions[i] = option
  /\ searchValue' = option.label
  /\ SuggestionEffect(option.label, <<>>)
  /\ searchFeedback' = Feedback("success", option.label)
  /\ UNCHANGED <<searchLoading, locationFetches, showDefaultInfo, historyVars, dashboardVars,
                 steps, ring, etaVars>>

\* The 3500 ms timeout armed by the effect on searchFeedback:
\* setSearchFeedback(null)
SearchFeedbackTimeout ==
  /\ searchFeedback # Null
  /\ searchFeedback' = Null
  /\ UNCHANGED <<searchValue, searchOptions, searchLoading, suggestTimeout, suggestFetches,
                 locationFetches, showDefaultInfo, historyVars, dashboardVars, steps, ring, etaVars>>

Queries == {Trim(text) : text \in SearchTexts} \cup {Bangkok.label, BanChang.label}

NextSearch ==
  \/ \E text \in SearchTexts : SearchTyped(text)
  \/ SuggestTimeoutFires
  \/ \E query \in Queries : SuggestResponseOk(query)
  \/ \E query \in Queries : SuggestResponseFails(query)
  \/ HandleSearchLocation
  \/ \E query \in Queries : LocationFound(query)
  \/ \E query \in Queries : LocationNotFound(query)
  \/ \E query \in Queries : LocationFails(query)
  \/ \E option \in {Bangkok, BanChang} : handleSelectSuggestion(option)
  \/ SearchFeedbackTimeout

SpecSearch == Init /\ [][NextSearch]_vars

\* A suggestion fetch that was not aborted settles: it resolves or rejects.
SuggestSettles ==
  \E query \in Queries : SuggestResponseOk(query) \/ SuggestResponseFails(query)

\* The browser runs a timeout that is due, and the network answers.
SpecSearchLive == SpecSearch /\ WF_vars(SuggestTimeoutFires) /\ WF_vars(SuggestSettles)

(***************************************************************************)
(* The transient messages: the search feedback and the marker tooltip of   *)
(* MapComponent, the clear alert of HistoryPanel, next to a live feed.     *)
(* DashboardPage renders both HistoryPanels without an onCleared prop.     *)
(***************************************************************************)
\* markerEl click: setShowDefaultInfo(true)
MarkerClick ==
  /\ showDefaultInfo' = TRUE
  /\ UNCHANGED <<dashboardVars, otherVars>>

\* response.text() of a DELETE that was turned down
ClearErrorBodies == {"", "camera not found"}

Status(type, message) == [type |-> type, message |-> message]

\* handleClearLogs up to its await; the button is disabled while isClearing
handleClearLogs ==
  /\ ~isClearing
  /\ isClearing' = TRUE
  /\ clearStatus' = Null
  /\ clearFetch' = TRUE
  /\ UNCHANGED <<dashboardVars, showDefaultInfo, searchVars, steps, ring, etaVars>>

\* response.ok: the success alert, onCleared?.() with onCleared undefined,
\* finally setIsClearing(false)
ClearSucceeds ==
  /\ clearFetch
  /\ clearFetch' = FALSE
  /\ clearStatus' = Status("success", "History cleared successfully.")
  /\ isClearing' = FALSE
  /\ UNCHANGED <<dashboardVars, showDefaultInfo, searchVars, steps, ring, etaVars>>

\* !response.ok: throw new Error(text || 'Failed to clear history')
ClearTurnedDown(text) ==
  /\ clearFetch
  /\ clearFetch' = FALSE
  /\ clearStatus' = Status("error", IF text = "" THEN "Failed to clear history" ELSE text)
  /\ isClearing' = FALSE
  /\ UNCHANGED <<dashboardVars, showDefaultInfo, searchVars, steps, ring, etaVars>>

\* fetch rejects: the message of the TypeError
ClearFetchFails ==
  /\ clearFetch
  /\ clearFetch' = FALSE
  /\ clearStatus' = Status("error", "Failed to fetch")
  /\ isClearing' = FALSE
  /\ UNCHANGED <<dashboardVars, showDefaultInfo, searchVars, steps, ring, etaVars>>

NextStatus ==
  \/ \E realtimeData \in EventPool : StreamPush(realtimeData)
  \/ HandleSearchLocation
  \/ SearchFeedbackTimeout
  \/ MarkerClick
  \/ \E coords \in DragTargets : MarkerDragEnd(coords)
  \/ DefaultInfoTimeout
  \/ handleClearLogs
  \/ ClearSucceeds
  \/ \E text \in ClearErrorBodies : ClearTurnedDown(text)
  \/ ClearFetchFails

SpecStatus == Init /\ [][NextStatus]_vars

\* The browser runs a timeout that is due.
SpecStatusLive ==
  SpecStatus /\ WF_vars(SearchFeedbackTimeout) /\ WF_vars(DefaultInfoTimeout)

(***************************************************************************)
(* createCirclePolygon on its own: any centre, any positive radius, any    *)
(* number of steps that divides 64.                                        *)
(***************************************************************************)
RingCenters ==
  { DEFAULT_DEFENCE_LOCATION, DEFAULT_OFFENCE_LOCATION, [lat |-> 0, lng |-> 0],
    [lat |-> 1000, lng |-> 100000], [lat |-> 1, lng |-> 100000] }

RingRadii == {100, 800, 1500, 100000, 500000}

RingSteps == {1, 2, 4, 8, 16, 32, 64}

InitRing ==
  /\ defensiveDefaultLocation = DEFAULT_DEFENCE_LOCATION
  /\ defensiveRadius = 1500
  /\ steps = 64
  /\ InitUi
  /\ ring = createCirclePolygon(DEFAULT_DEFENCE_LOCATION, 1500, 64)
  /\ radiusInput = "1500"
  /\ events = <<>>
  /\ latestObjects = <<>>
  /\ objects = <<>>
  /\ currentZoom = 17
  /\ markerDescriptors = <<>>
  /\ intruders = <<>>

RingCenterArg(center) ==
  /\ defensiveDefaultLocation' = center
  /\ ring' = createCirclePolygon(center, defensiveRadius, steps)
  /\ UNCHANGED <<events, latestObjects, objects, currentZoom, markerDescriptors, defensiveRadius,
                 radiusInput, intruders, steps, showDefaultInfo, searchVars, historyVars, etaVars>>

RingRadiusArg(radiusMeters) ==
  /\ defensiveRadius' = radiusMeters
  /\ ring' = createCirclePolygon(defensiveDefaultLocation, radiusMeters, steps)
  /\ UNCHANGED <<events, latestObjects, objects, currentZoom, markerDescriptors, radiusInput,
                 defensiveDefaultLocation, intruders, steps, showDefaultInfo, searchVars, historyVars, etaVars>>

RingStepsArg(n) ==
  /\ steps' = n
  /\ ring' = createCirclePolygon(defensiveDefaultLocation, defensiveRadius, n)
  /\ UNCHANGED <<events, latestObjects, objects, currentZoom, markerDescriptors, defensiveRadius,
                 radiusInput, defensiveDefaultLocation, intruders, showDefaultInfo, searchVars, historyVars, etaVars>>

NextRing ==
  \/ \E center \in RingCenters : RingCenterArg(center)
  \/ \E radiusMeters \in RingRadii : RingRadiusArg(radiusMeters)
  \/ \E n \in RingSteps : RingStepsArg(n)

SpecRing == InitRing /\ [][NextRing]_vars

(***************************************************************************)
(* formatEta on its own: the row's etaSeconds is null, not finite, or any  *)
(* number of tenths of a second up to MaxEtaTenths.                        *)
(***************************************************************************)
\* The longest ETA the model renders, in tenths of a second.
MaxEtaTenths == 1300

EtaInputs == {JNull, Num(NaN)} \cup {Num(t) : t \in 0..MaxEtaTenths}

\* the panel renders a row of its list: ETA: {formatEta(etaSeconds)}
EtaCellRendered(seconds) ==
  /\ etaSeconds' = seconds
  /\ etaText' = formatEta(seconds)
  /\ UNCHANGED <<dashboardVars, showDefaultInfo, steps, ring, searchVars, historyVars>>

NextEta == \E seconds \in EtaInputs : EtaCellRendered(seconds)

SpecEta == Init /\ [][NextEta]_vars

(***************************************************************************)
(* Vocabulary of the properties.                                           *)
(***************************************************************************)
Visits == EachObject(events)

IdsOf(visits) == {visits[i].object.obj_id : i \in 1..Len(visits)}

OccurrencesOf(visits, id) == {i \in 1..Len(visits) : visits[i].object.obj_id = id}

Max(S) == CHOOSE x \in S : \A y \in S : y <= x

Min(S) == CHOOSE x \in S : \A y \in S : x <= y

\* The objects a marker descriptor shows.
MembersOf(descriptor) ==
  IF descriptor.type = "single" THEN {descriptor.object}
  ELSE {descriptor.objects[i] : i \in 1..Len(descriptor.objects)}

ShownOnMap == UNION {MembersOf(markerDescriptors[i]) : i \in 1..Len(markerDescriptors)}

Reported == {intruders[i].object : i \in 1..Len(intruders)}

RegistryObjects == {latestObjects[i].object : i \in 1..Len(latestObjects)}

(***************************************************************************)
(* C1  For any ordered event list the registry holds exactly one entry per *)
(* distinct obj_id occurring in the list, and the entry's object and       *)
(* lastSeen are those of the last occurrence of the id by array position,  *)
(* whatever the timestamps are.                                            *)
(***************************************************************************)
C1_RegistryLastInArray ==
  /\ {latestObjects[i].object.obj_id : i \in 1..Len(latestObjects)} = IdsOf(Visits)
  /\ Len(latestObjects) = Cardinality(IdsOf(Visits))
  /\ \A i \in 1..Len(latestObjects) :
       LET last == Max(OccurrencesOf(Visits, latestObjects[i].object.obj_id))
       IN  /\ latestObjects[i].object = Visits[last].object
           /\ latestObjects[i].lastSeen = Visits[last].timestamp

\* An id occurs in two events, and the one later in the array is the older one.
C1_Witness ==
  \E i, j \in 1..Len(Visits) :
    /\ i < j
    /\ Visits[i].object.obj_id = Visits[j].object.obj_id
    /\ Visits[i].object # Visits[j].object
    /\ DateGetTime(Visits[j].timestamp) < DateGetTime(Visits[i].timestamp)
    /\ j = Max(OccurrencesOf(Visits, Visits[j].object.obj_id))
    /\ \E k \in 1..Len(latestObjects) :
         /\ latestObjects[k].object = Visits[j].object
         /\ latestObjects[k].lastSeen = Visits[j].timestamp

(***************************************************************************)
(* C2  After a live-stream push the registry entry of every obj_id of the  *)
(* pushed event holds the state the pushed event reports: its object and   *)
(* its timestamp (the most recently received event that has the id).       *)
(***************************************************************************)
ReflectsHead(ev, registry) ==
  \A i \in 1..Len(Head(ev).objects) :
    \E j \in 1..Len(registry) :
      /\ registry[j].object.obj_id = Head(ev).objects[i].obj_id
      /\ registry[j].lastSeen = Head(ev).timestamp
      /\ \E k \in 1..Len(Head(ev).objects) : registry[j].object = Head(ev).objects[k]

C2_PushedEventIsLastKnownState ==
  [][(\E realtimeData \in EventPool : StreamPush(realtimeData))
       => ReflectsHead(events', latestObjects')]_vars

(***************************************************************************)
(* C3  An object whose direct lat/lng are absent or unparsable but whose   *)
(* telemetry block carries parsable coordinates has a position: the map    *)
(* shows it, and the alert panel reports its id when that position is      *)
(* within the radius.                                                      *)
(***************************************************************************)
OnlyNestedPosition(object) ==
  /\ getPrimaryCoordinates(object) = Null
  /\ object.details.present
  /\ toValidNumber(object.details.lat) # NaN
  /\ toValidNumber(object.details.lng) # NaN

C3_NestedCoordinatesResolve ==
  /\ \A object \in RegistryObjects : OnlyNestedPosition(object) => object \in ShownOnMap
  /\ \A i \in 1..Len(Visits) :
       LET object == Visits[i].object
       IN  (/\ OnlyNestedPosition(object)
            /\ calculateDistanceMeters(defensiveDefaultLocation,
                 [lat |-> getObjectLatitude(object), lng |-> getObjectLongitude(object)])
                 <= defensiveRadius)
           => \E j \in 1..Len(intruders) : intruders[j].object.obj_id = object.obj_id

(***************************************************************************)
(* C4  An object without a resolvable position (latitude or longitude      *)
(* absent or unparsable in the direct fields and in the telemetry block)   *)
(* is in no marker descriptor at any zoom and in no intruder entry, and    *)
(* its id still has a registry entry, which is the object itself when it   *)
(* is the last occurrence of the id.                                       *)
(***************************************************************************)
HasNoPosition(object) == getObjectLatitude(object) = NaN \/ getObjectLongitude(object) = NaN

C4_NoPositionExcluded ==
  \A i \in 1..Len(Visits) :
    LET object == Visits[i].object
    IN  HasNoPosition(object) =>
          /\ object \notin ShownOnMap
          /\ object \notin Reported
          /\ \E j \in 1..Len(latestObjects) : latestObjects[j].object.obj_id = object.obj_id
          /\ i = Max(OccurrencesOf(Visits, object.obj_id)) => object \in RegistryObjects

\* The object with lat "14.3" and no longitude is in the registry while the map
\* and the panel show other objects, at a clustering zoom.
C4_Witness ==
  /\ oNoLng \in RegistryObjects
  /\ currentZoom < 15
  /\ ShownOnMap # {}
  /\ Reported # {}

(***************************************************************************)
(* C5  No entry of the intruder list has a distance greater than the       *)
(* radius: neither the recorded distance nor the distance of the entry's   *)
(* object from the defended point.                                         *)
(***************************************************************************)
DirectPosition(object) == [lat |-> parseFloatOf(object.lat), lng |-> parseFloatOf(object.lng)]

HasDirectPosition(object) == isFinite(parseFloatOf(object.lat)) /\ isFinite(parseFloatOf(object.lng))

C5_IntrudersWithinRadius ==
  \A i \in 1..Len(intruders) :
    /\ intruders[i].distance <= defensiveRadius
    /\ HasDirectPosition(intruders[i].object)
    /\ calculateDistanceMeters(defensiveDefaultLocation, DirectPosition(intruders[i].object))
         <= defensiveRadius

\* An object is reported while another one, farther than the radius, is left out.
C5_Witness ==
  /\ Len(intruders) > 0
  /\ \E i \in 1..Len(Visits) :
       /\ HasDirectPosition(Visits[i].object)
       /\ calculateDistanceMeters(defensiveDefaultLocation, DirectPosition(Visits[i].object))
            > defensiveRadius
       /\ Visits[i].object.obj_id \notin {intruders[j].object.obj_id : j \in 1..Len(intruders)}

(***************************************************************************)
(* C6  The intruder list has at most one entry per obj_id.  As claimed:    *)
(* the entry of an id is computed from the first occurrence of the id in   *)
(* the event array.  As amended: from the first occurrence of the id that  *)
(* has finite direct coordinates within the radius; later occurrences      *)
(* never replace it, closer or not.                                        *)
(***************************************************************************)
OneEntryPerId ==
  \A i, j \in 1..Len(intruders) :
    intruders[i].object.obj_id = intruders[j].object.obj_id => i = j

InRange(i) ==
  /\ HasDirectPosition(Visits[i].object)
  /\ calculateDistanceMeters(defensiveDefaultLocation, DirectPosition(Visits[i].object))
       <= defensiveRadius

C6_FirstOccurrenceRecorded ==
  /\ OneEntryPerId
  /\ \A k \in 1..Len(intruders) :
       intruders[k].object = Visits[Min(OccurrencesOf(Visits, intruders[k].object.obj_id))].object

C6_FirstInRangeOccurrenceRecorded ==
  /\ OneEntryPerId
  /\ \A k \in 1..Len(intruders) :
       LET inRange == {i \in OccurrencesOf(Visits, intruders[k].object.obj_id) : InRange(i)}
       IN  /\ inRange # {}
           /\ intruders[k].object = Visits[Min(inRange)].object
           /\ intruders[k].distance =
                calculateDistanceMeters(defensiveDefaultLocation,
                                        DirectPosition(Visits[Min(inRange)].object))

\* Two occurrences of an id are in range, the later one closer, and the entry is the earlier one.
C6_Witness ==
  \E i, j \in 1..Len(Visits) :
    /\ i < j
    /\ Visits[i].object.obj_id = Visits[j].object.obj_id
    /\ InRange(i) /\ InRange(j)
    /\ calculateDistanceMeters(defensiveDefaultLocation, DirectPosition(Visits[j].object))
         < calculateDistanceMeters(defensiveDefaultLocation, DirectPosition(Visits[i].object))
    /\ DateGetTime(Visits[i].timestamp) < DateGetTime(Visits[j].timestamp)
    /\ \E k \in 1..Len(intruders) : intruders[k].object = Visits[i].object

(***************************************************************************)
(* C7  Every object the alert panel reports is the registry's object for   *)
(* that id, computed from the same event list.                             *)
(***************************************************************************)
C7_ReportedObjectIsRegistryObject ==
  \A k \in 1..Len(intruders) :
    \E j \in 1..Len(latestObjects) :
      /\ latestObjects[j].object.obj_id = intruders[k].object.obj_id
      /\ latestObjects[j].object = intruders[k].object

(***************************************************************************)
(* C8  The intruder list is empty whenever the defended point is absent or *)
(* the radius is not positive, whatever the events are.                    *)
(***************************************************************************)
C8_EmptyWithoutPointOrRadius ==
  (defensiveDefaultLocation = Null \/ defensiveRadius <= 0) => intruders = <<>>

\* Radius zero, and an object stands on the defended point itself.
C8_Witness ==
  /\ defensiveRadius = 0
  /\ defensiveDefaultLocation # Null
  /\ \E i \in 1..Len(Visits) :
       /\ HasDirectPosition(Visits[i].object)
       /\ calculateDistanceMeters(defensiveDefaultLocation, DirectPosition(Visits[i].object)) = 0
  /\ intruders = <<>>

(***************************************************************************)
(* C9  The intruder list is ordered ascending by distance.                 *)
(***************************************************************************)
C9_SortedAscending ==
  \A i \in 1..(Len(intruders) - 1) : intruders[i].distance <= intruders[i + 1].distance

\* The entries were recorded in another order than the one shown.
C9_Witness ==
  /\ Len(intruders) >= 2
  /\ intruders[1].distance < intruders[Len(intruders)].distance
  /\ intruders # MapValues(SeeEach(<<>>, Visits, defensiveDefaultLocation, defensiveRadius))

(***************************************************************************)
(* C10  For each intruder entry etaSeconds is the distance divided by the  *)
(* object's reported speed when that speed is a positive number, and null  *)
(* otherwise; the speed is reported in the legacy field or in the          *)
(* telemetry block.                                                        *)
(***************************************************************************)
ReportedSpeed(object) ==
  IF object.speed.k = "number" THEN object.speed.v
  ELSE IF object.details.present /\ object.details.speed.k = "number" THEN object.details.speed.v
  ELSE NaN

C10_EtaFromReportedSpeed ==
  \A k \in 1..Len(intruders) :
    LET speed == ReportedSpeed(intruders[k].object)
    IN  IF speed # NaN /\ speed > 0
        THEN intruders[k].etaSeconds = Num((intruders[k].distance * 10) \div speed)
        ELSE intruders[k].etaSeconds = JNull

(***************************************************************************)
(* The marker layout.                                                      *)
(***************************************************************************)
\* The objects of an array that resolve to a position, in array order.
Positioned(items) == SelectSeq(items, LAMBDA object : getPrimaryCoordinates(object) # Null)

\* C11: at zoom 15 and above the map shows exactly one single descriptor per
\* positioned object of the array, in array order and at the object's own
\* coordinates; nothing is clustered, not even objects on the same point.
C11_SinglesAtHighZoom ==
  currentZoom >= 15 =>
    /\ Len(markerDescriptors) = Len(Positioned(objects))
    /\ \A i \in 1..Len(markerDescriptors) :
         /\ markerDescriptors[i].type = "single"
         /\ markerDescriptors[i].object = Positioned(objects)[i]
         /\ markerDescriptors[i].lat = Frac(getPrimaryCoordinates(Positioned(objects)[i]).lat, 1)
         /\ markerDescriptors[i].lng = Frac(getPrimaryCoordinates(Positioned(objects)[i]).lng, 1)

\* two objects on the same point and one without a position, at zoom 15
C11_Witness ==
  /\ currentZoom = 15
  /\ objects = <<oNear, oNoLng, oTwin>>
  /\ Len(markerDescriptors) = 2

\* The tolerance in thousandths of a degree: 0.002 from zoom 13, 0.004 from
\* zoom 11, 0.01 below.
TierTolerance(zoom) == IF zoom >= 13 THEN 2 ELSE IF zoom >= 11 THEN 4 ELSE 10

\* The members of a descriptor, in joining order.
MemberSeq(descriptor) ==
  IF descriptor.type = "single" THEN <<descriptor.object>> ELSE descriptor.objects

\* The squared distance from a descriptor's centroid to a point against the
\* squared tolerance, both over the common denominator.
CentroidGapSq(descriptor, coords) ==
  LET a == descriptor.lat.n - coords.lat * descriptor.lat.d
      b == descriptor.lng.n - coords.lng * descriptor.lng.d
  IN  a * a * descriptor.lng.d * descriptor.lng.d + b * b * descriptor.lat.d * descriptor.lat.d

ToleranceSq(descriptor, tolerance) ==
  tolerance * tolerance * descriptor.lat.d * descriptor.lat.d * descriptor.lng.d * descriptor.lng.d

WithinTolerance(descriptor, coords, tolerance, inclusive) ==
  IF inclusive THEN CentroidGapSq(descriptor, coords) <= ToleranceSq(descriptor, tolerance)
  ELSE CentroidGapSq(descriptor, coords) < ToleranceSq(descriptor, tolerance)

\* One more positioned object in the array: it joins the first descriptor, in
\* creation order, whose centroid before the step is within the tolerance,
\* and starts a descriptor of its own at the end when there is none.
JoinsFirstWithin(object, inclusive) ==
  LET coords == getPrimaryCoordinates(object)
      near == {i \in 1..Len(markerDescriptors) :
                 WithinTolerance(markerDescriptors[i], coords, TierTolerance(currentZoom), inclusive)}
  IN  IF near = {}
      THEN /\ Len(markerDescriptors') = Len(markerDescriptors) + 1
           /\ \A i \in 1..Len(markerDescriptors) : markerDescriptors'[i] = markerDescriptors[i]
           /\ markerDescriptors'[Len(markerDescriptors')] =
                [type |-> "single", lat |-> Frac(coords.lat, 1), lng |-> Frac(coords.lng, 1),
                 object |-> object]
      ELSE /\ Len(markerDescriptors') = Len(markerDescriptors)
           /\ \A i \in 1..Len(markerDescriptors) :
                IF i = Min(near)
                THEN MemberSeq(markerDescriptors'[i]) = Append(MemberSeq(markerDescriptors[i]), object)
                ELSE markerDescriptors'[i] = markerDescriptors[i]

GrowsBelowZoom15(object) ==
  /\ ObjectsPropGrows(object)
  /\ currentZoom < 15
  /\ getPrimaryCoordinates(object) # Null

\* C12 as stated: below zoom 15 an object joins the first cluster whose
\* current centroid is within the tolerance of its zoom tier, a distance
\* exactly equal to the tolerance counting as within.
C12_EqualCountsAsWithin ==
  [][\A object \in ClusterPool : GrowsBelowZoom15(object) => JoinsFirstWithin(object, TRUE)]_vars

\* C12: below zoom 15 the tolerance is 0.002 from zoom 13, 0.004 from zoom 11
\* and 0.01 below; an object joins the first cluster, in creation order,
\* whose current centroid is strictly closer than the tolerance, and starts
\* a cluster of its own otherwise: a distance equal to the tolerance does
\* not join.
C12_JoinsFirstStrictlyWithin ==
  [][\A object \in ClusterPool : GrowsBelowZoom15(object) => JoinsFirstWithin(object, FALSE)]_vars

\* at zoom 12 oMid, exactly 0.004 from oNear, has started its own cluster and
\* oEdge, 0.002 from both, has joined the first
C12_Witness ==
  /\ currentZoom = 12
  /\ objects = <<oNear, oMid, oEdge>>
  /\ Len(markerDescriptors) = 2
  /\ MemberSeq(markerDescriptors[1]) = <<oNear, oEdge>>
  /\ MemberSeq(markerDescriptors[2]) = <<oMid>>

RECURSIVE SumLat(_)
SumLat(members) ==
  IF members = <<>> THEN 0
  ELSE getPrimaryCoordinates(Head(members)).lat + SumLat(Tail(members))

RECURSIVE SumLng(_)
SumLng(members) ==
  IF members = <<>> THEN 0
  ELSE getPrimaryCoordinates(Head(members)).lng + SumLng(Tail(members))

\* C13: after the clustering pass the centroid of every cluster is the
\* arithmetic mean of the coordinates of its final members, whatever the
\* order in which they joined.
C13_CentroidIsMean ==
  currentZoom < 15 =>
    \A i \in 1..Len(markerDescriptors) :
      LET members == MemberSeq(markerDescriptors[i])
      IN  /\ markerDescriptors[i].lat = Frac(SumLat(members), Len(members))
          /\ markerDescriptors[i].lng = Frac(SumLng(members), Len(members))

\* three objects on different points in one cluster, mean latitude 42919/3
C13_Witness ==
  /\ currentZoom = 10
  /\ Len(markerDescriptors) = 1
  /\ MemberSeq(markerDescriptors[1]) = <<oNear, oMid, oWide>>
  /\ markerDescriptors[1].lat = Frac(42919, 3)

\* The clusters the pass leaves behind, before they are emitted.
FinalClusters == BuildClusters(<<>>, objects, Tolerance(currentZoom))

\* C14: a cluster of one member is emitted as a single descriptor with that
\* object at its coordinate, a cluster of two or more as a cluster
\* descriptor with all its members; no cluster descriptor has fewer than two
\* objects.
C14_SingleIffOneMember ==
  currentZoom < 15 =>
    /\ Len(markerDescriptors) = Len(FinalClusters)
    /\ \A i \in 1..Len(markerDescriptors) :
         IF Len(FinalClusters[i].objects) = 1
         THEN /\ markerDescriptors[i].type = "single"
              /\ markerDescriptors[i].object = FinalClusters[i].objects[1]
              /\ markerDescriptors[i].lat =
                   Frac(getPrimaryCoordinates(markerDescriptors[i].object).lat, 1)
              /\ markerDescriptors[i].lng =
                   Frac(getPrimaryCoordinates(markerDescriptors[i].object).lng, 1)
         ELSE /\ markerDescriptors[i].type = "cluster"
              /\ markerDescriptors[i].objects = FinalClusters[i].objects
              /\ Len(markerDescriptors[i].objects) >= 2

\* a cluster of two next to a single
C14_Witness ==
  /\ currentZoom = 14
  /\ objects = <<oNear, oMid, oTwin>>
  /\ markerDescriptors[1].type = "cluster"
  /\ markerDescriptors[1].objects = <<oNear, oTwin>>
  /\ markerDescriptors[2].type = "single"
  /\ markerDescriptors[2].object = oMid

(***************************************************************************)
(* The detection-radius ring.                                              *)
(***************************************************************************)
\* C15: createCirclePolygon(center, radius, steps) returns steps + 1 points,
\* and the first point, at angle 0, and the last, at angle 2 * PI, have
\* equal coordinates.
C15_RingClosed ==
  /\ Len(ring) = steps + 1
  /\ ring[1] = ring[Len(ring)]

(***************************************************************************)
(* The radius field.                                                       *)
(***************************************************************************)
InvalidRadiusText == ~isFinite(NumberOf(radiusInput)) \/ NumberOf(radiusInput) <= 0

\* C16: submitting a text that is not a number, or a number that is not
\* positive, leaves the detection radius as it was and puts the radius back
\* into the field; the radius, 1500 at the start, is a finite positive
\* number in every state.
C16_RadiusStaysValid ==
  /\ [](isFinite(defensiveRadius) /\ defensiveRadius > 0)
  /\ [][(HandleRadiusSubmit /\ InvalidRadiusText) =>
          /\ defensiveRadius' = defensiveRadius
          /\ radiusInput' = StringOf(defensiveRadius)]_vars

\* a text that will be turned away, typed after the radius was changed to 800
C16_Witness ==
  /\ defensiveRadius = 800
  /\ radiusInput \in {"0", "abc"}

(***************************************************************************)
(* The debounced suggestions.                                              *)
(***************************************************************************)
\* Every pending timeout and every fetch that can still deliver is for the
\* text now in the field.
PendingIsCurrent ==
  /\ suggestTimeout # Null => suggestTimeout.query = Trim(searchValue)
  /\ \A query \in suggestFetches : query = Trim(searchValue)

\* A response that is applied is the response to the text now in the field.
AppliedIsCurrent ==
  (\E query \in Queries : SuggestResponseOk(query)) => searchOptions' = Features(Trim(searchValue'))

\* C17 as stated: every change of the search text restarts the 350 ms timer
\* and cancels the pending or in-flight request of the previous text, and
\* the suggestion list is only ever set from the response to the most recent
\* request.
C17_EveryChangeRestartsTimer ==
  /\ []PendingIsCurrent
  /\ [][AppliedIsCurrent]_vars
  /\ [][\A text \in SearchTexts :
          SearchTyped(text) => suggestFetches' = {} /\ suggestTimeout' = [query |-> Trim(text)]]_vars

\* C17: every change of the search text cancels the pending timeout and the
\* in-flight request of the previous text; it arms a new timeout when the
\* trimmed text has 3 characters or more, and otherwise empties the list and
\* arms none.  Under every interleaving a response that is applied belongs
\* to the text now in the field: one of a superseded text never is.
C17_SupersededNeverApplied ==
  /\ []PendingIsCurrent
  /\ [][AppliedIsCurrent]_vars
  /\ [][\A text \in SearchTexts :
          SearchTyped(text) =>
            /\ suggestFetches' = {}
            /\ IF Length(Trim(text)) < 3
               THEN suggestTimeout' = Null /\ searchOptions' = <<>>
               ELSE suggestTimeout' = [query |-> Trim(text)]]_vars

\* the list of "ban" is still shown while the request of "bang" is in flight
C17_Witness ==
  /\ searchValue = "bang "
  /\ suggestFetches = {"bang"}
  /\ searchOptions = Features("ban")

(***************************************************************************)
(* The transient messages and the clear command.                           *)
(***************************************************************************)
\* C18: each transient message, the search feedback, the tooltip of the
\* default marker and the clear-history alert, disappears on its own timer
\* once shown, with no further action of the user and whatever the feed
\* does.
C18_MessagesExpire ==
  /\ (searchFeedback # Null) ~> (searchFeedback = Null)
  /\ showDefaultInfo ~> ~showDefaultInfo
  /\ (clearStatus # Null) ~> (clearStatus = Null)

ClearSettles ==
  ClearSucceeds \/ ClearFetchFails \/ \E text \in ClearErrorBodies : ClearTurnedDown(text)

\* C19: a clear request that succeeds sets the success alert and, through the
\* invalidation callback, takes the cleared events out of the working event
\* list; one that fails sets an error alert with the response body, or the
\* default text, and leaves the list alone; the clearing flag is false after
\* either.
C19_ClearOutcome ==
  [][/\ ClearSucceeds =>
          /\ clearStatus'.type = "success"
          /\ \A i \in 1..Len(events') : \A j \in 1..Len(events) : events'[i] # events[j]
     /\ \A text \in ClearErrorBodies :
          ClearTurnedDown(text) =>
            /\ clearStatus' = Status("error", IF text = "" THEN "Failed to clear history" ELSE text)
            /\ events' = events
     /\ ClearSettles => ~isClearing']_vars

(***************************************************************************)
(* One event list behind everything shown.                                 *)
(***************************************************************************)
\* C20: in every state the registry, the marker descriptors and the intruder
\* list are those of the working event list of that state: the registry of
\* the list, the layout of the registry's objects at the current zoom, the
\* intruders of the list for the current point and radius.
C20_DerivedFromOneEventList ==
  /\ latestObjects = buildLatestObjects(events)
  /\ objects = ObjectsOf(latestObjects)
  /\ markerDescriptors = getMarkerDescriptors(objects, currentZoom)
  /\ intruders = Intruders(events, defensiveDefaultLocation, defensiveRadius)

\* after a batch and a push: two events, a registry entry, a marker and an
\* intruder on screen
C20_Witness ==
  /\ events = <<Event(T2, <<oNear>>), Event(T2, <<oStr>>)>>
  /\ Len(latestObjects) = 2
  /\ Len(markerDescriptors) >= 1
  /\ Len(intruders) = 2

(***************************************************************************)
(* The registry as a list.                                                 *)
(***************************************************************************)
\* Array.from(map.values()) before the sort
UnsortedRegistry == MapValues(SetEach(<<>>, Visits))

EntriesOf(list) == {list[i] : i \in 1..Len(list)}

\* C21: the list buildLatestObjects returns is ordered by lastSeen, newest
\* first, and the sort changes the order only: the list has the entries
\* (object, lastSeen) of the unsorted mapping, each once.
C21_NewestFirstSameEntries ==
  /\ \A i, j \in 1..Len(latestObjects) :
       i < j => DateGetTime(latestObjects[i].lastSeen) >= DateGetTime(latestObjects[j].lastSeen)
  /\ Len(latestObjects) = Len(UnsortedRegistry)
  /\ EntriesOf(latestObjects) = EntriesOf(UnsortedRegistry)

\* two ids, the one set first in the Map seen earlier than the other: the
\* sort has moved the newer entry to the front
C21_Witness ==
  /\ Len(latestObjects) = 2
  /\ latestObjects # UnsortedRegistry
  /\ DateGetTime(latestObjects[1].lastSeen) > DateGetTime(latestObjects[2].lastSeen)

(***************************************************************************)
(* The ETA of a row.                                                       *)
(***************************************************************************)
\* the whole number of seconds nearest to tenths, a half counted upwards
NearestSecond(tenths) == CHOOSE n \in 0..(tenths \div 10 + 1) : 10 * n - 5 <= tenths /\ tenths < 10 * n + 5

\* the whole minutes in tenths
WholeMinutes(tenths) == CHOOSE m \in 0..(tenths \div 600) : 600 * m <= tenths /\ tenths < 600 * (m + 1)

FiniteEta == etaSeconds.k = "number" /\ isFinite(etaSeconds.v)

\* C22: formatEta renders a null ETA as "N/A", an ETA under 60 s as whole
\* seconds, at least "1s", and an ETA of 60 s or more as whole minutes plus
\* the remaining seconds, without the seconds term when that is zero; 100 s
\* gives "1m 40s" and 120 s gives "2m".
C22_EtaRendering ==
  /\ etaSeconds.k = "null" => etaText = "N/A"
  /\ (FiniteEta /\ etaSeconds.v < 600) =>
       etaText = ToString(MathMax(1, NearestSecond(etaSeconds.v))) \o "s"
  /\ (FiniteEta /\ etaSeconds.v >= 600) =>
       LET minutes == WholeMinutes(etaSeconds.v)
           rest == NearestSecond(etaSeconds.v - 600 * minutes)
       IN  etaText = IF rest = 0 THEN ToString(minutes) \o "m"
                     ELSE ToString(minutes) \o "m " \o ToString(rest) \o "s"
  /\ etaSeconds = Num(1000) => etaText = "1m 40s"
  /\ etaSeconds = Num(1200) => etaText = "2m"

\* the row of an ETA of 100 s
C22_Witness == etaSeconds = Num(1000) /\ etaText = "1m 40s"

\* The texts whose seconds figure is between 0 and 59.
ClockTexts ==
  {ToString(secs) \o "s" : secs \in 0..59}
    \cup {ToString(minutes) \o "m" : minutes \in 1..(MaxEtaTenths \div 600 + 1)}
    \cup {ToString(minutes) \o "m " \o ToString(secs) \o "s" :
            minutes \in 1..(MaxEtaTenths \div 600 + 1), secs \in 1..59}

\* C30: for every finite ETA of 0 s or more the seconds figure formatEta
\* shows is between 0 and 59: under 60 s the text is never "60s", from 60 s
\* on the seconds term is never 60.
C30_SecondsFigureBelowSixty == (FiniteEta /\ etaSeconds.v >= 0) => etaText \in ClockTexts

(***************************************************************************)
(* What leaves the registry.                                               *)
(***************************************************************************)
RegistryIds == {latestObjects[i].object.obj_id : i \in 1..Len(latestObjects)}

IsStreamPush == \E realtimeData \in EventPool : StreamPush(realtimeData)

IsHistoryDelivered == \E data \in HistoryResponses : HistoryDelivered(data)

\* C23: an obj_id leaves the registry only in a step after which no event of
\* the working list has it; a live-stream push never makes the set of
\* registry ids smaller, and neither does any step other than the delivery
\* of a batch: no operation takes a single entry out.
C23_IdsLeaveOnlyWithTheirEvents ==
  [][/\ \A id \in RegistryIds \ RegistryIds' : id \notin IdsOf(EachObject(events'))
     /\ IsStreamPush => RegistryIds \subseteq RegistryIds'
     /\ ~IsHistoryDelivered => RegistryIds \subseteq RegistryIds']_vars

\* two pushes, each with another id: a list no batch delivers, both ids kept
C23_Witness ==
  /\ Len(events) = 2
  /\ events \notin HistoryResponses
  /\ Head(events).objects # <<>>
  /\ Cardinality(RegistryIds) = 2
  /\ IdsOf(EachObject(<<Head(events)>>)) # RegistryIds

(***************************************************************************)
(* Batch and stream on one list.                                           *)
(***************************************************************************)
EventsOf(list) == {list[i] : i \in 1..Len(list)}

\* C24: the delivery of a historical batch makes the working event list that
\* batch and nothing else, so an event pushed before it stays only if the
\* batch has it, and the registry is the one of the batch; a push puts its
\* event in front of the list and leaves the rest as it was.
C24_BatchReplacesPushPrepends ==
  [][/\ \A data \in HistoryResponses :
          HistoryDelivered(data) =>
            /\ events' = data
            /\ EventsOf(events) \cap EventsOf(events') \subseteq EventsOf(data)
            /\ latestObjects' = buildLatestObjects(data)
     /\ \A realtimeData \in EventPool :
          StreamPush(realtimeData) =>
            /\ Len(events') = Len(events) + 1
            /\ Head(events') = realtimeData
            /\ Tail(events') = events]_vars

\* a one-event batch with a pushed event in front of it
C24_Witness ==
  /\ Len(events) = 2
  /\ Tail(events) \in HistoryResponses
  /\ Head(events) = Event(T3, <<oFar>>)
  /\ RegistryIds = {"obj_001", "obj_002"}

(***************************************************************************)
(* Who is on the intruder list.                                            *)
(***************************************************************************)
ReportedIds == {intruders[k].object.obj_id : k \in 1..Len(intruders)}

InRangeOccurrences(id) == {i \in OccurrencesOf(Visits, id) : InRange(i)}

\* C25: an obj_id is on the intruder list exactly when one of its
\* occurrences in the working event list, wherever it stands, has finite
\* direct coordinates within the radius; occurrences out of range that come
\* before it in the array do not keep it off the list, and the entry is the
\* first occurrence in range.
C25_ListedIffSomeOccurrenceInRange ==
  /\ ReportedIds \subseteq IdsOf(Visits)
  /\ \A id \in IdsOf(Visits) : id \in ReportedIds <=> InRangeOccurrences(id) # {}
  /\ \A k \in 1..Len(intruders) :
       LET id == intruders[k].object.obj_id
       IN  InRangeOccurrences(id) # {}
             => intruders[k].object = Visits[Min(InRangeOccurrences(id))].object

\* the newest event has the id out of range, an older one has it in range,
\* and the list has the older object
C25_Witness ==
  \E i, j \in 1..Len(Visits) :
    /\ i < j
    /\ Visits[i].object.obj_id = Visits[j].object.obj_id
    /\ i = Min(OccurrencesOf(Visits, Visits[i].object.obj_id))
    /\ HasDirectPosition(Visits[i].object)
    /\ ~InRange(i)
    /\ InRange(j)
    /\ DateGetTime(Visits[j].timestamp) < DateGetTime(Visits[i].timestamp)
    /\ \E k \in 1..Len(intruders) : intruders[k].object = Visits[j].object

(***************************************************************************)
(* The descriptors as a whole.                                             *)
(***************************************************************************)
\* The members of the descriptors one after the other.
RECURSIVE AllMembers(_)
AllMembers(descriptors) ==
  IF descriptors = <<>> THEN <<>>
  ELSE MemberSeq(Head(descriptors)) \o AllMembers(Tail(descriptors))

CountIn(list, x) == Cardinality({i \in 1..Len(list) : list[i] = x})

HoldersOf(object) ==
  {i \in 1..Len(markerDescriptors) : CountIn(MemberSeq(markerDescriptors[i]), object) > 0}

\* C26: at every zoom the descriptors partition the positioned objects of
\* the array: their member counts add up to the number of positioned
\* objects, every object is a member as many times as it is in the array
\* with a position, and an object that is in the array once is in exactly
\* one descriptor.
C26_DescriptorsPartitionPositioned ==
  /\ Len(AllMembers(markerDescriptors)) = Len(Positioned(objects))
  /\ \A object \in ClusterPool :
       /\ CountIn(AllMembers(markerDescriptors), object) = CountIn(Positioned(objects), object)
       /\ CountIn(Positioned(objects), object) = 1 => Cardinality(HoldersOf(object)) = 1

\* below zoom 15: a cluster of two, and an object without a longitude that
\* is in no descriptor
C26_Witness ==
  /\ currentZoom = 14
  /\ objects = <<oNear, oNoLng, oTwin>>
  /\ Len(markerDescriptors) = 1
  /\ Len(AllMembers(markerDescriptors)) = 2

(***************************************************************************)
(* Clusters after the pass.                                                *)
(***************************************************************************)
\* Two centroids closer to each other than the tolerance.
CentroidsCloserThan(a, b, tolerance) ==
  LET p == [n |-> a.lat.n * b.lat.d - b.lat.n * a.lat.d, d |-> a.lat.d * b.lat.d]
      q == [n |-> a.lng.n * b.lng.d - b.lng.n * a.lng.d, d |-> a.lng.d * b.lng.d]
  IN  p.n * p.n * q.d * q.d + q.n * q.n * p.d * p.d < tolerance * tolerance * p.d * p.d * q.d * q.d

\* C27 as stated: after a pass below zoom 15 every member of a descriptor is
\* within the tolerance of the descriptor's final centroid, and no two
\* descriptors have centroids within the tolerance of each other.
C27_MembersNearCentroidsApart ==
  currentZoom < 15 =>
    /\ \A i \in 1..Len(markerDescriptors) :
         \A k \in 1..Len(MemberSeq(markerDescriptors[i])) :
           WithinTolerance(markerDescriptors[i],
                           getPrimaryCoordinates(MemberSeq(markerDescriptors[i])[k]),
                           TierTolerance(currentZoom), TRUE)
    /\ \A i, j \in 1..Len(markerDescriptors) :
         i # j => ~CentroidsCloserThan(markerDescriptors[i], markerDescriptors[j],
                                       TierTolerance(currentZoom))

\* The clusters of the pass after its first k positioned objects.
ClustersAfter(k) ==
  BuildClusters(<<>>, SubSeq(Positioned(objects), 1, k), Tolerance(currentZoom))

\* The k-th positioned object joined a cluster whose centroid was, at that
\* moment, strictly closer than the tolerance, or no centroid was and it
\* started the last cluster.
JoinedWithin(k) ==
  LET before == ClustersAfter(k - 1)
      after == ClustersAfter(k)
      object == Positioned(objects)[k]
      near == {i \in 1..Len(before) :
                 WithinTolerance(before[i], getPrimaryCoordinates(object),
                                 TierTolerance(currentZoom), FALSE)}
  IN  IF Len(after) = Len(before)
      THEN \E i \in near : after[i].objects = Append(before[i].objects, object)
      ELSE /\ near = {}
           /\ Len(after) = Len(before) + 1
           /\ after[Len(after)].objects = <<object>>

\* C27: after a pass below zoom 15 every member of a descriptor was strictly
\* within the tolerance of the centroid its cluster had when it joined, and
\* every descriptor was started by an object that was within the tolerance
\* of no centroid of that moment; the members of the descriptors are those
\* of the clusters so built.
C27_MembersJoinedWithinTolerance ==
  currentZoom < 15 =>
    /\ \A k \in 1..Len(Positioned(objects)) : JoinedWithin(k)
    /\ Len(markerDescriptors) = Len(ClustersAfter(Len(Positioned(objects))))
    /\ \A i \in 1..Len(markerDescriptors) :
         MemberSeq(markerDescriptors[i]) = ClustersAfter(Len(Positioned(objects)))[i].objects

\* at zoom 12 oEdge has joined the cluster of oNear and moved its centroid to
\* 14.304, 0.003 from the centroid of oMid's descriptor
C27_Witness ==
  /\ currentZoom = 12
  /\ objects = <<oNear, oMid, oEdge>>
  /\ Len(markerDescriptors) = 2
  /\ markerDescriptors[1].lat = Frac(14304, 1)
  /\ markerDescriptors[2].lat = Frac(14307, 1)
  /\ CentroidsCloserThan(markerDescriptors[1], markerDescriptors[2], TierTolerance(currentZoom))

(***************************************************************************)
(* The spinner of the search field.                                        *)
(***************************************************************************)
\* No timeout of the suggestion effect is pending and no fetch of it is in
\* flight unaborted.
NoSuggestRequest == suggestTimeout = Null /\ suggestFetches = {}

\* C28: whenever no autocomplete request is pending or in flight the loading
\* indicator is off or goes off without another keystroke; in particular it
\* returns to false after a request was cancelled by a keystroke that left
\* fewer than 3 characters.
C28_LoadingOffWhenIdle == NoSuggestRequest ~> ~searchLoading

(***************************************************************************)
(* The suggestion list after a place was chosen.                           *)
(***************************************************************************)
\* place_name of the features.  No text the user types is a place_name, so
\* a place_name in the field was put there by handleSelectSuggestion or by
\* handleSearchLocation and has not been edited since.
PlaceNames == {Bangkok.label, BanChang.label}

TextSetByProgram == searchValue \in PlaceNames

\* C29: from the selection of a suggestion or the success of a direct search
\* until the user next edits the text, the suggestion list is empty and no
\* autocomplete request is issued for the text the program has set.
C29_ListStaysEmptyAfterChoice ==
  TextSetByProgram => searchOptions = <<>> /\ suggestFetches = {}


====
